---- MODULE Spec2Model ----
(***************************************************************************)
(* pycopine: the command (task) lifecycle of pycopine/command.py running   *)
(* on the worker pool of pycopine/pool.py.                                 *)
(*                                                                         *)
(* Every thread is a small program counter machine.  Client threads call   *)
(* the public methods of Command (and Pool.shutdown); worker threads run   *)
(* Pool._run_loop and Command._run.  A step is one critical section or one *)
(* unlocked read/write, so that readers which take no lock (result(),      *)
(* exception(), is_success(), ...) can observe the middle of a locked      *)
(* section of another thread.                                              *)
(***************************************************************************)
EXTENDS Integers, Sequences, FiniteSets, TLC

\* ------------------------------------------------------------------ bounds

\* Pool.max_queue_size and Pool.max_pool_size are class attributes (10 in
\* the source); the model runs the pool with small settings.
max_queue_size == 2
max_pool_size == 1
\* Number of API calls the client threads make on one task, all together.
MaxCalls == 2
\* Number of calls (submit, cancel, shutdown) the client threads make on
\* the pool under load, all together.
MaxPoolCalls == 3
\* HistogramCounter(window, buckets): the number of buckets, and the length
\* dt = window / buckets of one bucket in clock ticks.
Buckets == 2
Dt == 2
\* The clock stops at MaxTime; increment() is called with amounts up to
\* MaxValue, MaxTotal in all.
MaxTime == 8
MaxValue == 1
MaxTotal == 3
\* Number of events the emitting threads emit, all together.
MaxEvents == 4

\* ----------------------------------------------------------- fixed universe

Tasks == {"t1", "t2", "t3"}
Clients == {<<"client", 1>>, <<"client", 2>>}
\* Names for worker threads: those the pool may start, and one more, so
\* that a pool that starts too many has a name for the extra thread.
PoolWorkers == {<<"worker", i>> : i \in 1..max_pool_size}
Workers == PoolWorkers \cup {<<"worker", max_pool_size + 1>>}
NoThread == <<"none", 0>>

\* command.py:13-18
\* NEW is a reserved word of TLA+.
NEW_STATE == "NEW"
PENDING == "PENDING"
RUNNING == "RUNNING"
FAILED == "FAILED"
SUCCEDED == "SUCCEDED"

\* Python's None, and the values and exceptions that flow through a task.
None == "None"
RunValue == "run_value"
FallbackValue == "fallback_value"
RunError == "RunError"
FallbackError == "FallbackError"
CommandCancelledError == "CommandCancelledError"
CommandTimeoutError == "CommandTimeoutError"
CommandExecutorNotFoundError == "CommandExecutorNotFoundError"
PoolClosedError == "RuntimeError(Pool is closed)"
QueueFullError == "RuntimeError(Queue full)"
CommandNameError == "CommandNameError"

VARIABLES
  \* Command instance fields (command.py:147-167), one per task
  state, canceled, result, exception,
  fallback_state, fallback_result, fallback_exception,
  completed, pool, statelock,
  \* Pool fields (pool.py:23-31).  No block under the queue lock waits for
  \* anything while it holds the lock (Condition.wait gives it up), so each
  \* such block is one step and qlock is free between steps.
  queue, running, threads, shutdown_flag, qlock,
  \* threads of control
  client, worker,
  \* observation history (not program state)
  hist,
  \* HistogramCounter fields (metrics.py:17-24) as a record, the clock that
  \* now() reads, and the history of the amounts passed to increment(): for
  \* each bucket, named by the time it ends at, what went into it
  histogram, clock, fell,
  \* events.py: the counter behind _getid (line 37), the bus queue of the
  \* root EventManager (line 44), the emitting threads, and the history of
  \* the ids in the order they were stamped
  next_id, bus_queue, emitter, stamped,
  \* EventManager fields (events.py:42-45): the sink list, the list of
  \* their consume callbacks, the consumer thread of _sink_loop, and the
  \* history of what the sinks were called with
  sinks, sink_callbacks, sink_thread, bus_hist,
  \* CommandGroup.commands of every group (command.py:60), and the command
  \* classes with their group and name attributes (command.py:137-141)
  commands, definition,
  \* threads that go through the locked blocks of command.py and pool.py
  \* one lock operation at a time
  locker,
  \* threads inside HistogramCounter.increment, the histogram's lock
  \* (metrics.py:24), and the tally of the amounts passed and dropped
  adder, hist_lock, tally

taskVars == <<state, canceled, result, exception, fallback_state,
              fallback_result, fallback_exception, completed, pool, statelock>>
poolVars == <<queue, running, threads, shutdown_flag, qlock>>
metricsVars == <<histogram, clock, fell>>
eventVars == <<next_id, bus_queue, emitter, stamped>>
busVars == <<sinks, sink_callbacks, sink_thread, bus_hist>>
groupVars == <<commands, definition>>
raceVars == <<adder, hist_lock, tally>>
\* What the command and pool code never touches.
libVars == <<metricsVars, eventVars, busVars, groupVars, locker, raceVars>>
\* What the metrics and event code never touches.
commandVars == <<taskVars, poolVars, client, worker, hist>>
vars == <<commandVars, libVars>>
\* What a histogram driven by one thread never touches.
nonMetricsVars == <<commandVars, eventVars, busVars, groupVars, locker, raceVars>>
\* What the event bus never touches.
nonEventVars == <<commandVars, metricsVars, groupVars, locker, raceVars>>

\* The threads that call increment() on one histogram at the same time.
Adders == {<<"adder", 1>>, <<"adder", 2>>}

\* The threads whose lock operations are followed one by one: the client
\* threads and the worker threads of the pool.
Lockers == Clients \cup PoolWorkers

\* The command groups, the names command classes declare, and the command
\* classes an application defines.
Groups == {"g1", "g2"}
Names == {"A", "B"}
Definitions == {"d1", "d2", "d3"}

Emitters == {<<"emitter", 1>>, <<"emitter", 2>>, <<"emitter", 3>>}

\* The sinks an application registers: a FuncSink (events.py:22-24) and an
\* instance of a class derived from BaseSink (events.py:14-16).
Sinks == {"f1", "m1"}

\* The times a bucket can end at.
BucketEnds == 0..(MaxTime + Dt)

\* The consumer thread at queue.get() (events.py:84).  Inside the loop,
\* event is the event taken, iter the callback list the for statement walks
\* and idx its position, failed the callback that raised, named the sink
\* the failure event will name and made the _id of that event.
SinkIdle ==
  [pc |-> "get", event |-> None, iter |-> <<>>, idx |-> 0, failed |-> None,
   named |-> None, made |-> None]

\* History of the bus, for stating properties only: the sinks registered,
\* the events each sink was called with, the event each sink first raised
\* on (a set of at most one _id), the sinks whose failure has been dealt with, and which sink each
\* pool.sinkfailed event names.
NoBusHistory ==
  [added |-> {}, delivered |-> [s \in Sinks |-> <<>>],
   failed_on |-> [s \in Sinks |-> {}], handled |-> {}, payload |-> {}]

\* A thread that is not inside increment().  Inside, value is the amount
\* passed, loaded the bucket_value read by the += of line 28, and age the
\* age computed at line 32.
AdderIdle == [pc |-> "idle", value |-> 0, loaded |-> 0, age |-> 0]

\* command.py:60: self.commands = {}
NoCommands == [n \in Names |-> None]

\* A command class whose class statement has not been executed.  group and
\* name are the attributes the class body declares (command.py:137, 141),
\* bound tells that _register has bound them to the group (74-75), and
\* outcome is what the class statement ended with.
Undefined ==
  [group |-> None, name |-> None, bound |-> FALSE, outcome |-> "undefined"]

\* A client thread that has made no call yet.  op is the method the client
\* calls (or called last), pc its position in it, seen the value the last
\* inner call returned, ret what the finished call returned or raised.
\* applied is history: the state this call's cancel() found and changed.
IdleClient(n) ==
  [op |-> "none", pc |-> "idle", task |-> "t1", timeout |-> FALSE,
   seen |-> None, applied |-> None, ret |-> <<"none", None>>, calls |-> n,
   join |-> {}]

\* A worker slot with no thread in it.
NoWorker ==
  [pc |-> "none", command |-> None, run_error |-> None, result |-> None]

\* History kept per task, for stating properties only.  enq_seq numbers
\* the tasks in the order the queue took them in (0: not yet).
NoHistory ==
  [completed_sets |-> 0, run_calls |-> 0, run_returned |-> None,
   cleanup_calls |-> 0, fallback_calls |-> 0, enqueued |-> 0, enq_seq |-> 0]

Init ==
  /\ state = [t \in Tasks |-> NEW_STATE]
  /\ canceled = [t \in Tasks |-> FALSE]
  /\ result = [t \in Tasks |-> None]
  /\ exception = [t \in Tasks |-> None]
  /\ fallback_state = [t \in Tasks |-> NEW_STATE]
  /\ fallback_result = [t \in Tasks |-> None]
  /\ fallback_exception = [t \in Tasks |-> None]
  /\ completed = [t \in Tasks |-> FALSE]
  /\ pool = [t \in Tasks |-> None]
  /\ statelock = [t \in Tasks |-> NoThread]
  /\ queue = <<>>
  /\ running = {}
  /\ threads = {}
  /\ shutdown_flag = FALSE
  /\ qlock = NoThread
  /\ client = [c \in Clients |-> IdleClient(0)]
  /\ worker = [w \in Workers |-> NoWorker]
  /\ hist = [t \in Tasks |-> NoHistory]
  \* metrics.py:17-24, constructed at time 0
  /\ clock = 0
  /\ histogram = [bucket_list |-> [i \in 1..Buckets |-> 0],
                  bucket_value |-> 0, bucket_lifetime |-> 0 + Dt]
  /\ fell = [e \in BucketEnds |-> 0]
  \* events.py:37, 40-44
  /\ next_id = 0
  /\ bus_queue = <<>>
  /\ emitter = [e \in Emitters |-> [pc |-> "idle", event |-> None]]
  /\ stamped = <<>>
  \* events.py:42-47: no sinks, the consumer thread started
  /\ sinks = <<>>
  /\ sink_callbacks = <<>>
  /\ sink_thread = SinkIdle
  /\ bus_hist = NoBusHistory
  \* command.py:60: every group starts with an empty command map; no
  \* command class is defined yet
  /\ commands = [g \in Groups |-> NoCommands]
  /\ definition = [d \in Definitions |-> Undefined]
  \* no thread is inside a locked block
  /\ locker = [x \in Lockers |-> [pc |-> "idle", task |-> "t1"]]
  \* metrics.py:24: the lock is free; no thread is inside increment()
  /\ adder = [a \in Adders |-> AdderIdle]
  /\ hist_lock = NoThread
  /\ tally = [passed |-> 0, dropped |-> 0]

\* ------------------------------------------------------------ thread helpers

\* The client moves to another position of the method it executes.
Goto(c, p) == client' = [client EXCEPT ![c].pc = p]

\* The outermost call of the client returns r (<<"value", v>>) or raises
\* (<<"raise", e>>).
Finish(c, r) ==
  client' = [client EXCEPT ![c].pc = "idle", ![c].ret = r, ![c].seen = None,
                           ![c].timeout = FALSE]

\* The calls the clients of S have made, all together: every client's
\* record carries the count.
CallsMade(S) == LET c == CHOOSE x \in S : TRUE IN client[c].calls

\* A client thread that is in no call enters method o at position p.
Start(c, o, p, t, tm) ==
  /\ client[c].pc = "idle"
  /\ client' = [d \in Clients |->
       IF d = c
         THEN [op |-> o, pc |-> p, task |-> t, timeout |-> tm, seen |-> None,
               applied |-> None, ret |-> <<"none", None>>,
               calls |-> CallsMade(Clients) + 1, join |-> {}]
         ELSE [client[d] EXCEPT !.calls = CallsMade(Clients) + 1]]

\* A client starts an API call on task t.
Call(c, o, p, t, tm) ==
  /\ CallsMade(Clients) < MaxCalls
  /\ Start(c, o, p, t, tm)

InQueue(t) == \E i \in 1..Len(queue) : queue[i] = t

\* A remove that leaves the list as it is.
ListRemoveNothing(q, t) == q

\* list.remove(x): the first occurrence of x goes.
RECURSIVE ListRemove(_, _)
ListRemove(q, t) ==
  IF q = <<>> THEN <<>>
  ELSE IF Head(q) = t THEN Tail(q)
  ELSE <<Head(q)>> \o ListRemove(Tail(q), t)

Bump(t, field) == hist' = [hist EXCEPT ![t][field] = @ + 1]

\* The next number of the order the queue takes tasks in.
NextSeq == 1 + Cardinality({u \in Tasks : hist[u].enq_seq > 0})

\* ------------------------------------------------------------ Command.submit

\* A submit that queues a task again while it is still PENDING.
SubmitAppliesToPending(s) == s \in {NEW_STATE, PENDING}

\* command.py:175
SubmitApplies(s) == s = NEW_STATE

\* result() called submit() (command.py:221), or the client did.
AfterSubmit(c) ==
  IF client[c].op = "submit"
    THEN Finish(c, <<"value", "self">>)
    ELSE Goto(c, "result_check")

\* submit() raised: the exception leaves submit() and result(); exception()
\* catches it (command.py:242).
SubmitRaises(c, e) ==
  IF client[c].op = "exception"
    THEN Goto(c, "exception_except")
    ELSE Finish(c, <<"raise", e>>)

CallSubmit(c, t) ==
  /\ Call(c, "submit", "submit", t, FALSE)
  /\ UNCHANGED <<taskVars, poolVars, worker, hist>>
  /\ UNCHANGED libVars

\* command.py:174-177: take the state lock; a task that is not NEW is left
\* alone, a NEW one becomes PENDING and is bound to its group's executor.
\* get_executor raises when the command class names a pool its group lacks.
SubmitLock(c) ==
  LET t == client[c].task IN
  /\ client[c].pc = "submit"
  /\ statelock[t] = NoThread
  /\ IF ~SubmitApplies(state[t])
       THEN /\ AfterSubmit(c)
            /\ UNCHANGED <<taskVars, poolVars, worker, hist>>
       ELSE /\ state' = [state EXCEPT ![t] = PENDING]
            /\ \/ /\ pool' = [pool EXCEPT ![t] = "default"]
                  /\ statelock' = [statelock EXCEPT ![t] = c]
                  /\ Goto(c, "enqueue")
               \/ /\ SubmitRaises(c, CommandExecutorNotFoundError)
                  /\ UNCHANGED <<pool, statelock>>
            /\ UNCHANGED <<canceled, result, exception, fallback_state,
                           fallback_result, fallback_exception, completed,
                           poolVars, worker, hist>>
  /\ UNCHANGED libVars

\* ------------------------------------------------------------- Pool.enqueue

\* A capacity test that lets one task too many in.
QueueFullOffByOne(q) == Len(q) > max_queue_size

\* pool.py:51
QueueFull(q) == Len(q) >= max_queue_size

\* An enqueue that starts a worker thread for every task it takes.
NewThreadsUnbounded ==
  IF Workers \ threads # {}
    THEN {w \in Workers \ threads :
            \A v \in Workers \ threads : w[2] <= v[2]}
    ELSE {NoThread}

\* pool.py:54-58: a new worker thread is started while the worker list is
\* below max_pool_size.  Which free slot names the new thread makes no
\* difference; it gets the lowest.
NewThreads ==
  IF Cardinality(threads) < max_pool_size
    THEN {w \in Workers \ threads :
            \A v \in Workers \ threads : w[2] <= v[2]}
    ELSE {NoThread}

\* pool.py:59: Condition.notify() wakes one waiting worker, if there is one.
Notified ==
  IF \E w \in Workers : worker[w].pc = "wait"
    THEN {w \in Workers : worker[w].pc = "wait"}
    ELSE {NoThread}

\* pool.py:47-59, one block under the queue lock, entered while submit
\* still holds the task's state lock; then both locks are released and
\* submit returns or raises.
Enqueue(c) ==
  LET t == client[c].task IN
  /\ client[c].pc = "enqueue"
  /\ qlock = NoThread
  /\ UNCHANGED qlock
  /\ statelock' = [statelock EXCEPT ![t] = NoThread]
  /\ UNCHANGED <<state, canceled, result, exception, fallback_state,
                 fallback_result, fallback_exception, completed, pool,
                 running, shutdown_flag>>
  /\ IF shutdown_flag
       THEN /\ SubmitRaises(c, PoolClosedError)
            /\ UNCHANGED <<queue, threads, worker, hist>>
       ELSE IF QueueFull(queue)
       THEN /\ SubmitRaises(c, QueueFullError)
            /\ UNCHANGED <<queue, threads, worker, hist>>
       ELSE /\ queue' = Append(queue, t)
            /\ hist' = [hist EXCEPT ![t].enqueued = @ + 1,
                                    ![t].enq_seq = NextSeq]
            /\ \E n \in NewThreads, k \in Notified :
                 /\ threads' = IF n = NoThread THEN threads ELSE threads \cup {n}
                 /\ worker' = [w \in Workers |->
                      IF w = n THEN [NoWorker EXCEPT !.pc = "loop"]
                      ELSE IF w = k THEN [worker[w] EXCEPT !.pc = "wake"]
                      ELSE worker[w]]
            /\ AfterSubmit(c)
  /\ UNCHANGED libVars

\* ----------------------------------------------------------- Pool._run_loop

\* A worker that takes the task queued last.
PopLast(w) ==
  /\ queue' = SubSeq(queue, 1, Len(queue) - 1)
  /\ worker' = [worker EXCEPT ![w].pc = "run",
                               ![w].command = queue[Len(queue)]]

\* pool.py:72-73: pop the head of the queue and leave the locked block.
Pop(w) ==
  /\ queue' = Tail(queue)
  /\ worker' = [worker EXCEPT ![w].pc = "run", ![w].command = Head(queue)]

\* pool.py:65-72, one block under the queue lock: leave on shutdown, wait
\* on an empty queue (the wait gives the lock up), pop otherwise.
LoopBody(w) ==
  /\ worker[w].pc = "loop"
  /\ qlock = NoThread
  /\ UNCHANGED qlock
  /\ IF shutdown_flag
       THEN /\ worker' = [worker EXCEPT ![w].pc = "exit"]
            /\ UNCHANGED queue
       ELSE IF queue = <<>>
       THEN /\ worker' = [worker EXCEPT ![w].pc = "wait"]
            /\ UNCHANGED queue
       ELSE Pop(w)
  /\ UNCHANGED <<taskVars, running, threads, shutdown_flag, client, hist>>
  /\ UNCHANGED libVars

\* pool.py:69: the wait ends by itself after max_worker_idle seconds.
WaitTimeout(w) ==
  /\ worker[w].pc = "wait"
  /\ worker' = [worker EXCEPT ![w].pc = "wake"]
  /\ UNCHANGED <<taskVars, poolVars, client, hist>>
  /\ UNCHANGED libVars

\* pool.py:69-72: a woken worker takes the queue lock again and goes on in
\* the locked block.
WakeBody(w) ==
  /\ worker[w].pc = "wake"
  /\ qlock = NoThread
  /\ UNCHANGED qlock
  /\ IF shutdown_flag \/ queue = <<>>
       THEN /\ worker' = [worker EXCEPT ![w].pc = "exit"]
            /\ UNCHANGED queue
       ELSE Pop(w)
  /\ UNCHANGED <<taskVars, running, threads, shutdown_flag, client, hist>>
  /\ UNCHANGED libVars

\* pool.py:78-79: the thread takes itself off the worker list, holding no
\* lock, and ends.
LoopExit(w) ==
  /\ worker[w].pc = "exit"
  /\ threads' = threads \ {w}
  /\ worker' = [worker EXCEPT ![w] = NoWorker]
  /\ UNCHANGED <<taskVars, queue, running, shutdown_flag, qlock, client, hist>>
  /\ UNCHANGED libVars

\* --------------------------------------------------------------- Command._run

\* A worker that also runs a task it finds canceled.
RunAppliesToFailed(s) == s \in {PENDING, FAILED}

\* command.py:296
RunApplies(s) == s = PENDING

\* pool.py:74 and command.py:295-297: a task that is no longer PENDING is
\* not run (pool.py:77 takes it off the running list again).
RunBegin(w) ==
  LET t == worker[w].command IN
  /\ worker[w].pc = "run"
  /\ statelock[t] = NoThread
  /\ IF RunApplies(state[t])
       THEN /\ state' = [state EXCEPT ![t] = RUNNING]
            /\ running' = running \cup {t}
            /\ worker' = [worker EXCEPT ![w].pc = "run_call"]
            /\ Bump(t, "run_calls")
       ELSE /\ worker' = [worker EXCEPT ![w] = [NoWorker EXCEPT !.pc = "loop"]]
            /\ UNCHANGED <<state, running, hist>>
  /\ UNCHANGED <<canceled, result, exception, fallback_state, fallback_result,
                 fallback_exception, completed, pool, statelock,
                 queue, threads, shutdown_flag, qlock, client>>
  /\ UNCHANGED libVars

\* command.py:299-305: the user's run() returns a value or raises.
RunCall(w) ==
  LET t == worker[w].command IN
  /\ worker[w].pc = "run_call"
  /\ \/ /\ worker' = [worker EXCEPT ![w].pc = "run_finish", ![w].result = RunValue]
        /\ hist' = [hist EXCEPT ![t].run_returned = RunValue]
     \/ /\ worker' = [worker EXCEPT ![w].pc = "run_finish", ![w].run_error = RunError]
        /\ UNCHANGED hist
  /\ UNCHANGED <<taskVars, poolVars, client>>
  /\ UNCHANGED libVars

\* A worker that records the run's outcome whatever the state has become.
RunCountsAlways(s) == s \in {RUNNING, FAILED}

\* command.py:308
RunCounts(s) == s = RUNNING

\* command.py:309-313: the state the run's outcome leads to.
RunOutcome(run_error) == IF run_error # None THEN FAILED ELSE SUCCEDED

\* A _run that ends at once when it finds the task canceled, and so never
\* reaches cleanup().
RunFinishSkipsCleanup(w) ==
  LET t == worker[w].command IN
  /\ worker[w].pc = "run_finish"
  /\ statelock[t] = NoThread
  /\ IF state[t] = RUNNING
       THEN /\ statelock' = [statelock EXCEPT ![t] = w]
            /\ state' = [state EXCEPT ![t] =
                 IF worker[w].run_error # None THEN FAILED ELSE SUCCEDED]
            /\ worker' = [worker EXCEPT ![w].pc = "run_record"]
            /\ UNCHANGED running
       ELSE /\ worker' = [worker EXCEPT ![w] = [NoWorker EXCEPT !.pc = "loop"]]
            /\ running' = running \ {t}
            /\ UNCHANGED <<state, statelock>>
  /\ UNCHANGED <<canceled, result, exception, fallback_state, fallback_result,
                 fallback_exception, completed, pool,
                 queue, threads, shutdown_flag, qlock, client, hist>>
  /\ UNCHANGED libVars

\* command.py:307-313, 316-317: under the state lock the state is written
\* first; a task canceled meanwhile keeps what cancel wrote.
RunFinish(w) ==
  LET t == worker[w].command IN
  /\ worker[w].pc = "run_finish"
  /\ statelock[t] = NoThread
  /\ IF RunCounts(state[t])
       THEN /\ statelock' = [statelock EXCEPT ![t] = w]
            /\ state' = [state EXCEPT ![t] = RunOutcome(worker[w].run_error)]
            /\ worker' = [worker EXCEPT ![w].pc = "run_record"]
       ELSE /\ worker' = [worker EXCEPT ![w].pc = "cleanup"]
            /\ UNCHANGED <<state, statelock>>
  /\ UNCHANGED <<canceled, result, exception, fallback_state, fallback_result,
                 fallback_exception, completed, pool, poolVars, client, hist>>
  /\ UNCHANGED libVars

\* command.py:311, 314: then the exception or the result.
RunRecord(w) ==
  LET t == worker[w].command IN
  /\ worker[w].pc = "run_record"
  /\ IF worker[w].run_error # None
       THEN /\ exception' = [exception EXCEPT ![t] = worker[w].run_error]
            /\ UNCHANGED result
       ELSE /\ result' = [result EXCEPT ![t] = worker[w].result]
            /\ UNCHANGED exception
  /\ worker' = [worker EXCEPT ![w].pc = "run_signal"]
  /\ UNCHANGED <<state, canceled, fallback_state, fallback_result,
                 fallback_exception, completed, pool, statelock,
                 poolVars, client, hist>>
  /\ UNCHANGED libVars

\* command.py:315: completed.set(), and the locked block ends.
RunSignal(w) ==
  LET t == worker[w].command IN
  /\ worker[w].pc = "run_signal"
  /\ completed' = [completed EXCEPT ![t] = TRUE]
  /\ Bump(t, "completed_sets")
  /\ statelock' = [statelock EXCEPT ![t] = NoThread]
  /\ worker' = [worker EXCEPT ![w].pc = "cleanup"]
  /\ UNCHANGED <<state, canceled, result, exception, fallback_state,
                 fallback_result, fallback_exception, pool, poolVars, client>>
  /\ UNCHANGED libVars

\* command.py:319-322 and pool.py:77: cleanup() is called (what it raises
\* is logged and dropped), the task leaves the running list, and the worker
\* is back at the top of its loop.
RunCleanup(w) ==
  LET t == worker[w].command IN
  /\ worker[w].pc = "cleanup"
  /\ Bump(t, "cleanup_calls")
  /\ running' = running \ {t}
  /\ worker' = [worker EXCEPT ![w] = [NoWorker EXCEPT !.pc = "loop"]]
  /\ UNCHANGED <<taskVars, queue, threads, shutdown_flag, qlock, client>>
  /\ UNCHANGED libVars

\* ------------------------------------------------------------ Command.cancel

\* A cancel that also takes hold of a task that succeeded.
CancelAppliesToSucceeded(s) == s \in {NEW_STATE, PENDING, RUNNING, SUCCEDED}

\* command.py:196
CancelApplies(s) == s \in {NEW_STATE, PENDING, RUNNING}

\* A result() that cancels without passing its timeout error.
CancelExceptionDefault(c) == CommandCancelledError

\* command.py:197: cancel(exception=None); result() passes a timeout error
\* (command.py:226).
CancelException(c) ==
  IF client[c].op = "cancel" THEN CommandCancelledError ELSE CommandTimeoutError

\* cancel() returns v to the client, or to result(), which drops the value
\* (command.py:226).
AfterCancel(c, v) ==
  IF client[c].op = "cancel"
    THEN Finish(c, <<"value", v>>)
    ELSE Goto(c, "result_state")

\* command.py:201, for a task that is bound to no pool.
CancelUnbound == "True"

\* command.py:201 and pool.py:42-45: dequeue() has no return statement.
CancelBound == None

CallCancel(c, t) ==
  /\ Call(c, "cancel", "cancel", t, FALSE)
  /\ UNCHANGED <<taskVars, poolVars, worker, hist>>
  /\ UNCHANGED libVars

\* command.py:195-197: under the state lock an unfinished task gets its
\* exception first.  A finished task is left alone and cancel goes on to its
\* return statement (line 201), still inside the locked block.
CancelLock(c) ==
  LET t == client[c].task IN
  /\ client[c].pc = "cancel"
  /\ statelock[t] = NoThread
  /\ IF CancelApplies(state[t])
       THEN /\ exception' = [exception EXCEPT ![t] = CancelException(c)]
            /\ statelock' = [statelock EXCEPT ![t] = c]
            /\ client' = [client EXCEPT ![c].pc = "cancel_state",
                                         ![c].applied = state[t]]
       ELSE IF pool[t] = None
       THEN /\ AfterCancel(c, CancelUnbound)
            /\ UNCHANGED <<exception, statelock>>
       ELSE /\ statelock' = [statelock EXCEPT ![t] = c]
            /\ Goto(c, "dequeue")
            /\ UNCHANGED exception
  /\ UNCHANGED <<state, canceled, result, fallback_state, fallback_result,
                 fallback_exception, completed, pool, poolVars, worker, hist>>
  /\ UNCHANGED libVars

\* command.py:198
CancelState(c) ==
  LET t == client[c].task IN
  /\ client[c].pc = "cancel_state"
  /\ state' = [state EXCEPT ![t] = FAILED]
  /\ Goto(c, "cancel_signal")
  /\ UNCHANGED <<canceled, result, exception, fallback_state, fallback_result,
                 fallback_exception, completed, pool, statelock,
                 poolVars, worker, hist>>
  /\ UNCHANGED libVars

\* command.py:199-201: the canceled flag, completed.set(), and the return
\* statement: True for a task bound to no pool, else on to Pool.dequeue.
CancelSignal(c) ==
  LET t == client[c].task IN
  /\ client[c].pc = "cancel_signal"
  /\ canceled' = [canceled EXCEPT ![t] = TRUE]
  /\ completed' = [completed EXCEPT ![t] = TRUE]
  /\ Bump(t, "completed_sets")
  /\ IF pool[t] = None
       THEN /\ statelock' = [statelock EXCEPT ![t] = NoThread]
            /\ AfterCancel(c, CancelUnbound)
       ELSE /\ Goto(c, "dequeue")
            /\ UNCHANGED statelock
  /\ UNCHANGED <<state, result, exception, fallback_state, fallback_result,
                 fallback_exception, pool, poolVars, worker>>
  /\ UNCHANGED libVars

\* ------------------------------------------------------------- Pool.dequeue

\* pool.py:42-45, one block under the queue lock, entered while cancel still
\* holds the task's state lock; then both locks are released and cancel
\* returns what dequeue returned.
Dequeue(c) ==
  LET t == client[c].task IN
  /\ client[c].pc = "dequeue"
  /\ qlock = NoThread
  /\ queue' = IF InQueue(t) THEN ListRemove(queue, t) ELSE queue
  /\ UNCHANGED qlock
  /\ statelock' = [statelock EXCEPT ![t] = NoThread]
  /\ AfterCancel(c, CancelBound)
  /\ UNCHANGED <<state, canceled, result, exception, fallback_state,
                 fallback_result, fallback_exception, completed, pool,
                 running, threads, shutdown_flag, worker, hist>>
  /\ UNCHANGED libVars

\* ----------------------------------------------------- Command.__try_fallback

\* A fallback gate that forgets the fallback state.
FallbackAppliesUngated(s, fs) == s = FAILED

\* command.py:279
FallbackApplies(s, fs) == s = FAILED /\ fs = NEW_STATE

\* __try_fallback() returns b to result() (command.py:231) or to
\* is_fallback() (command.py:261).
AfterFallback(c, b) ==
  IF client[c].op \in {"result", "exception"}
    THEN client' = [client EXCEPT ![c].pc = "result_fallback", ![c].seen = b]
    ELSE Finish(c, <<"value", b>>)

\* command.py:278-291, one locked block: a class without fallback() fails
\* the fallback at once; else fallback() is called and returns or raises.
TryFallback(c) ==
  LET t == client[c].task IN
  /\ client[c].pc = "try_fallback"
  /\ statelock[t] = NoThread
  /\ IF FallbackApplies(state[t], fallback_state[t])
       THEN \/ /\ fallback_state' = [fallback_state EXCEPT ![t] = FAILED]
               /\ AfterFallback(c, "False")
               /\ UNCHANGED <<fallback_result, fallback_exception, hist>>
            \/ /\ fallback_result' = [fallback_result EXCEPT ![t] = FallbackValue]
               /\ fallback_state' = [fallback_state EXCEPT ![t] = SUCCEDED]
               /\ Bump(t, "fallback_calls")
               /\ AfterFallback(c, "True")
               /\ UNCHANGED fallback_exception
            \/ /\ fallback_exception' = [fallback_exception EXCEPT ![t] = FallbackError]
               /\ fallback_state' = [fallback_state EXCEPT ![t] = FAILED]
               /\ Bump(t, "fallback_calls")
               /\ AfterFallback(c, "False")
               /\ UNCHANGED fallback_result
       ELSE /\ AfterFallback(c, IF fallback_state[t] = SUCCEDED THEN "True" ELSE "False")
            /\ UNCHANGED <<fallback_state, fallback_result, fallback_exception, hist>>
  /\ UNCHANGED <<state, canceled, result, exception, completed, pool, statelock,
                 poolVars, worker>>
  /\ UNCHANGED libVars

\* ------------------------------------------------------------ Command.result

\* result() returns or raises r.  Called by exception() (command.py:240-243),
\* what it raises is caught, and what it returns is dropped: exception()
\* then ends without a return statement.
AfterResult(c, r) ==
  IF client[c].op = "result" THEN Finish(c, r)
  ELSE IF r[1] = "raise" THEN Goto(c, "exception_except")
  ELSE Finish(c, <<"value", None>>)

\* command.py:223, 225
Unfinished(s) == s \in {PENDING, RUNNING}

CallResult(c, t, tm) ==
  /\ Call(c, "result", "submit", t, tm)
  /\ UNCHANGED <<taskVars, poolVars, worker, hist>>
  /\ UNCHANGED libVars

\* command.py:223: the state is read without the state lock.
ResultCheck(c) ==
  LET t == client[c].task IN
  /\ client[c].pc = "result_check"
  /\ Goto(c, IF Unfinished(state[t]) THEN "result_wait" ELSE "result_state")
  /\ UNCHANGED <<taskVars, poolVars, worker, hist>>
  /\ UNCHANGED libVars

\* command.py:224-226: completed.wait(timeout) ends when the signal is set
\* or, with a timeout, at any moment; then the state is read again without
\* the lock, and an unfinished task is canceled.
ResultWait(c) ==
  LET t == client[c].task IN
  /\ client[c].pc = "result_wait"
  /\ completed[t] \/ client[c].timeout
  /\ Goto(c, IF Unfinished(state[t]) THEN "cancel" ELSE "result_state")
  /\ UNCHANGED <<taskVars, poolVars, worker, hist>>
  /\ UNCHANGED libVars

\* command.py:228-229: state and result are read without the lock.
ResultValue(t) == <<"value", result[t]>>

\* command.py:228-231
ResultState(c) ==
  LET t == client[c].task IN
  /\ client[c].pc = "result_state"
  /\ IF state[t] = SUCCEDED
       THEN AfterResult(c, ResultValue(t))
       ELSE Goto(c, "try_fallback")
  /\ UNCHANGED <<taskVars, poolVars, worker, hist>>
  /\ UNCHANGED libVars

\* A result() that raises what the fallback raised.
FallbackOutcomeRaisesFallback(t, ok) ==
  IF ok = "True" THEN <<"value", fallback_result[t]>>
  ELSE IF fallback_exception[t] # None THEN <<"raise", fallback_exception[t]>>
  ELSE <<"raise", exception[t]>>

\* command.py:231-234: the fallback's value, or the task's exception.
FallbackOutcome(t, ok) ==
  IF ok = "True" THEN <<"value", fallback_result[t]>>
  ELSE <<"raise", exception[t]>>

ResultFallback(c) ==
  /\ client[c].pc = "result_fallback"
  /\ AfterResult(c, FallbackOutcome(client[c].task, client[c].seen))
  /\ UNCHANGED <<taskVars, poolVars, worker, hist>>
  /\ UNCHANGED libVars

\* --------------------------------------------------------- Command.exception

CallException(c, t, tm) ==
  /\ Call(c, "exception", "exception", t, tm)
  /\ UNCHANGED <<taskVars, poolVars, worker, hist>>
  /\ UNCHANGED libVars

\* command.py:237-241
ExceptionCheck(c) ==
  LET t == client[c].task IN
  /\ client[c].pc = "exception"
  /\ IF completed[t]
       THEN Finish(c, <<"value", exception[t]>>)
       ELSE Goto(c, "submit")
  /\ UNCHANGED <<taskVars, poolVars, worker, hist>>
  /\ UNCHANGED libVars

\* command.py:242-243
ExceptionExcept(c) ==
  /\ client[c].pc = "exception_except"
  /\ Finish(c, <<"value", exception[client[c].task]>>)
  /\ UNCHANGED <<taskVars, poolVars, worker, hist>>
  /\ UNCHANGED libVars

\* ------------------------------------------------------------------ observers

\* command.py:250-252
is_success(t) == state[t] = SUCCEDED
\* command.py:254-257
is_failure(t) == state[t] = FAILED
\* command.py:263-265
is_canceled(t) == canceled[t]
\* command.py:267-269
is_timeout(t) == exception[t] = CommandTimeoutError
\* command.py:271-272
is_running(t) == state[t] = RUNNING
\* command.py:274-275
is_completed(t) == state[t] \in {SUCCEDED, FAILED}

CallIsFallback(c, t) ==
  /\ Call(c, "is_fallback", "is_fallback", t, FALSE)
  /\ UNCHANGED <<taskVars, poolVars, worker, hist>>
  /\ UNCHANGED libVars

\* command.py:261: the fallback state is read without the lock.
IsFallback(c) ==
  LET t == client[c].task IN
  /\ client[c].pc = "is_fallback"
  /\ IF fallback_state[t] = SUCCEDED
       THEN Finish(c, <<"value", "True">>)
       ELSE Goto(c, "try_fallback")
  /\ UNCHANGED <<taskVars, poolVars, worker, hist>>
  /\ UNCHANGED libVars

CallHasResult(c, t) ==
  /\ Call(c, "has_result", "has_result", t, FALSE)
  /\ UNCHANGED <<taskVars, poolVars, worker, hist>>
  /\ UNCHANGED libVars

\* command.py:248
HasResult(c) ==
  LET t == client[c].task IN
  /\ client[c].pc = "has_result"
  /\ IF is_success(t)
       THEN Finish(c, <<"value", "True">>)
       ELSE Goto(c, "is_fallback")
  /\ UNCHANGED <<taskVars, poolVars, worker, hist>>
  /\ UNCHANGED libVars

CallWait(c, t, tm) ==
  /\ Call(c, "wait", "wait", t, tm)
  /\ UNCHANGED <<taskVars, poolVars, worker, hist>>
  /\ UNCHANGED libVars

\* command.py:203-207
Wait(c) ==
  LET t == client[c].task IN
  /\ client[c].pc = "wait"
  /\ completed[t] \/ client[c].timeout
  /\ Finish(c, <<"value", IF completed[t] THEN "True" ELSE "False">>)
  /\ UNCHANGED <<taskVars, poolVars, worker, hist>>
  /\ UNCHANGED libVars

\* -------------------------------------------------------------- Pool.shutdown

\* shutdown(block): the timeout field of the call carries block.
CallShutdown(c, block) ==
  /\ CallsMade(Clients) < MaxPoolCalls
  /\ Start(c, "shutdown", "shutdown", "t1", block)
  /\ UNCHANGED <<taskVars, poolVars, worker, hist>>
  /\ UNCHANGED libVars

\* A shutdown that wakes and joins the workers but leaves the pool open.
ShutdownKeepsOpen(c) ==
  /\ client[c].pc = "shutdown"
  /\ qlock = NoThread
  /\ worker' = [w \in Workers |->
       IF worker[w].pc = "wait" THEN [worker[w] EXCEPT !.pc = "wake"]
       ELSE worker[w]]
  /\ IF client[c].timeout
       THEN client' = [client EXCEPT ![c].pc = "join", ![c].join = threads]
       ELSE Finish(c, <<"value", None>>)
  /\ UNCHANGED <<taskVars, poolVars, hist>>
  /\ UNCHANGED libVars

\* pool.py:82-86: under the queue lock set the flag and wake every waiting
\* worker; a blocking shutdown then joins the threads on the worker list.
Shutdown(c) ==
  /\ client[c].pc = "shutdown"
  /\ qlock = NoThread
  /\ shutdown_flag' = TRUE
  /\ worker' = [w \in Workers |->
       IF worker[w].pc = "wait" THEN [worker[w] EXCEPT !.pc = "wake"]
       ELSE worker[w]]
  /\ IF client[c].timeout
       THEN client' = [client EXCEPT ![c].pc = "join", ![c].join = threads]
       ELSE Finish(c, <<"value", None>>)
  /\ UNCHANGED <<taskVars, queue, running, threads, qlock, hist>>
  /\ UNCHANGED libVars

\* pool.py:86-87: every joined thread has ended.
ShutdownJoin(c) ==
  /\ client[c].pc = "join"
  /\ client[c].join \cap threads = {}
  /\ client' = [client EXCEPT ![c].pc = "idle", ![c].ret = <<"value", None>>,
                               ![c].join = {}]
  /\ UNCHANGED <<taskVars, poolVars, worker, hist>>
  /\ UNCHANGED libVars

\* ------------------------------------------------------------- specification

\* The calls of Command's methods a client thread can make on the tasks
\* of T.
CommandCall(c, T) ==
  \/ \E t \in T : CallSubmit(c, t)
  \/ \E t \in T : CallCancel(c, t)
  \/ \E t \in T, tm \in BOOLEAN : CallResult(c, t, tm)
  \/ \E t \in T, tm \in BOOLEAN : CallException(c, t, tm)
  \/ \E t \in T : CallIsFallback(c, t)
  \/ \E t \in T : CallHasResult(c, t)
  \/ \E t \in T, tm \in BOOLEAN : CallWait(c, t, tm)

ClientStep(c) ==
  \/ SubmitLock(c) \/ Enqueue(c)
  \/ CancelLock(c) \/ CancelState(c) \/ CancelSignal(c)
  \/ Dequeue(c)
  \/ TryFallback(c)
  \/ ResultCheck(c) \/ ResultWait(c) \/ ResultState(c) \/ ResultFallback(c)
  \/ ExceptionCheck(c) \/ ExceptionExcept(c)
  \/ IsFallback(c) \/ HasResult(c) \/ Wait(c)

WorkerStep(w) ==
  \/ LoopBody(w) \/ WaitTimeout(w) \/ WakeBody(w)
  \/ LoopExit(w)
  \/ RunBegin(w) \/ RunCall(w) \/ RunFinish(w) \/ RunRecord(w) \/ RunSignal(w)
  \/ RunCleanup(w)

\* The life of one task: every method of Command, called from two client
\* threads on the same task, against the pool's workers.
LifecycleTasks == {"t1"}

Next ==
  \/ \E c \in Clients : CommandCall(c, LifecycleTasks)
  \/ \E c \in Clients : ClientStep(c)
  \/ \E w \in Workers : WorkerStep(w)

Spec == Init /\ [][Next]_vars

\* The pool under load: clients submit and cancel several tasks and shut
\* the pool down.
PoolSubmit(c, t) ==
  /\ CallsMade(Clients) < MaxPoolCalls
  /\ Start(c, "submit", "submit", t, FALSE)
  /\ UNCHANGED <<taskVars, poolVars, worker, hist>>
  /\ UNCHANGED libVars

PoolCancel(c, t) ==
  /\ CallsMade(Clients) < MaxPoolCalls
  /\ Start(c, "cancel", "cancel", t, FALSE)
  /\ UNCHANGED <<taskVars, poolVars, worker, hist>>
  /\ UNCHANGED libVars

PoolCall(c) ==
  \/ \E t \in Tasks : PoolSubmit(c, t)
  \/ \E t \in Tasks : PoolCancel(c, t)
  \/ \E block \in BOOLEAN : CallShutdown(c, block)

PoolStep(c) ==
  \/ SubmitLock(c) \/ Enqueue(c)
  \/ CancelLock(c) \/ CancelState(c) \/ CancelSignal(c)
  \/ Dequeue(c)
  \/ Shutdown(c) \/ ShutdownJoin(c)

PoolNext ==
  \/ \E c \in Clients : PoolCall(c)
  \/ \E c \in Clients : PoolStep(c)
  \/ \E w \in Workers : WorkerStep(w)

PoolSpec == Init /\ [][PoolNext]_vars

\* ------------------------------------------------- metrics.HistogramCounter

Min(a, b) == IF a <= b THEN a ELSE b

RECURSIVE SeqSum(_)
SeqSum(l) == IF l = <<>> THEN 0 ELSE Head(l) + SeqSum(Tail(l))

\* metrics.py:21, 34: append on a deque that is full (maxlen=buckets) drops
\* the oldest entry.
DequeAppend(l, x) == Append(Tail(l), x)

\* metrics.py:39-40: extend the deque by n zeros.
RECURSIVE ExtendZeros(_, _)
ExtendZeros(l, n) ==
  IF n = 0 THEN l ELSE ExtendZeros(DequeAppend(l, 0), n - 1)

\* metrics.py:39: the number of zero buckets put in for skipped intervals.
Zeros(skipped) == Min(skipped, Buckets - 1)

\* metrics.py:26-41: the histogram after increment(value) at time now.
\* Driven by one thread, the age read under the lock is positive whenever
\* the test of line 27 failed.
increment(h, now, value) ==
  IF now <= h.bucket_lifetime
    THEN [h EXCEPT !.bucket_value = @ + value]
    ELSE LET age == now - h.bucket_lifetime
             skipped == age \div Dt
             rolled == DequeAppend(h.bucket_list, h.bucket_value)
         IN IF age > Dt
              THEN [bucket_list |-> ExtendZeros(rolled, Zeros(skipped)),
                    bucket_value |-> value,
                    bucket_lifetime |-> h.bucket_lifetime + Dt + skipped * Dt]
              ELSE [bucket_list |-> rolled,
                    bucket_value |-> value,
                    bucket_lifetime |-> h.bucket_lifetime + Dt]

\* metrics.py:60-63
sum(h) == SeqSum(h.bucket_list)

\* The amounts passed to increment() so far.
RECURSIVE FellTotal(_)
FellTotal(S) ==
  IF S = {} THEN 0
  ELSE LET e == CHOOSE x \in S : TRUE IN fell[e] + FellTotal(S \ {e})

\* Time passes.
Tick ==
  /\ clock < MaxTime
  /\ clock' = clock + 1
  /\ UNCHANGED <<histogram, fell, nonMetricsVars>>

\* increment(value) with an amount; it goes into the bucket that is current
\* when the call returns.
Increment(value) ==
  /\ FellTotal(BucketEnds) + value <= MaxTotal
  /\ histogram' = increment(histogram, clock, value)
  /\ fell' = [fell EXCEPT ![histogram'.bucket_lifetime] = @ + value]
  /\ UNCHANGED <<clock, nonMetricsVars>>

\* metrics.py:43-46
Sync ==
  /\ histogram' = increment(histogram, clock, 0)
  /\ UNCHANGED <<clock, fell, nonMetricsVars>>

HistNext ==
  \/ Tick
  \/ \E value \in 1..MaxValue : Increment(value)
  \/ Sync

\* One thread drives a histogram over discrete time.
HistSpec == Init /\ [][HistNext]_vars

\* -------------------------------- HistogramCounter.increment, many threads

\* Everything the threads inside increment() never touch.
nonRaceVars == <<commandVars, eventVars, busVars, groupVars, locker, fell>>

\* The total of the first n entries of l: what a deque of fixed length
\* drops when n entries are appended to it.
RECURSIVE Dropped(_, _)
Dropped(l, n) ==
  IF n = 0 \/ l = <<>> THEN 0 ELSE Head(l) + Dropped(Tail(l), n - 1)

\* A thread calls increment(value).
CallIncrement(a, value) ==
  /\ adder[a].pc = "idle"
  /\ tally.passed + value <= MaxTotal
  /\ adder' = [adder EXCEPT ![a] = [AdderIdle EXCEPT !.pc = "test", !.value = value]]
  /\ tally' = [tally EXCEPT !.passed = @ + value]
  /\ UNCHANGED <<histogram, clock, hist_lock, nonRaceVars>>

\* metrics.py:27: the test of the fast path, without the lock.
IncTest(a) ==
  /\ adder[a].pc = "test"
  /\ adder' = [adder EXCEPT ![a].pc =
       IF clock <= histogram.bucket_lifetime THEN "load" ELSE "lock"]
  /\ UNCHANGED <<histogram, clock, hist_lock, tally, nonRaceVars>>

\* metrics.py:28: self.bucket_value += value reads the attribute ...
IncLoad(a) ==
  /\ adder[a].pc = "load"
  /\ adder' = [adder EXCEPT ![a].pc = "store", ![a].loaded = histogram.bucket_value]
  /\ UNCHANGED <<histogram, clock, hist_lock, tally, nonRaceVars>>

\* ... and writes the sum back, in two steps that other threads can come
\* between.
IncStore(a) ==
  /\ adder[a].pc = "store"
  /\ histogram' = [histogram EXCEPT !.bucket_value = adder[a].loaded + adder[a].value]
  /\ adder' = [adder EXCEPT ![a] = AdderIdle]
  /\ UNCHANGED <<clock, hist_lock, tally, nonRaceVars>>

\* metrics.py:31-33: take the lock and compute the age; when the bucket is
\* not over (another thread has rolled it meanwhile) the locked block does
\* nothing and increment() returns.
IncLock(a) ==
  /\ adder[a].pc = "lock"
  /\ hist_lock = NoThread
  /\ IF clock - histogram.bucket_lifetime > 0
       THEN /\ hist_lock' = a
            /\ adder' = [adder EXCEPT ![a].pc = "append",
                                      ![a].age = clock - histogram.bucket_lifetime]
       ELSE /\ adder' = [adder EXCEPT ![a] = AdderIdle]
            /\ UNCHANGED hist_lock
  /\ UNCHANGED <<histogram, clock, tally, nonRaceVars>>

\* metrics.py:34: the bucket that is over goes on the list, and the oldest
\* entry drops off.
IncAppend(a) ==
  /\ adder[a].pc = "append"
  /\ histogram' = [histogram EXCEPT
       !.bucket_list = DequeAppend(@, histogram.bucket_value)]
  /\ tally' = [tally EXCEPT !.dropped = @ + Dropped(histogram.bucket_list, 1)]
  /\ adder' = [adder EXCEPT ![a].pc = "value"]
  /\ UNCHANGED <<clock, hist_lock, nonRaceVars>>

\* metrics.py:35: the new bucket starts with the amount passed.
IncValue(a) ==
  /\ adder[a].pc = "value"
  /\ histogram' = [histogram EXCEPT !.bucket_value = adder[a].value]
  /\ adder' = [adder EXCEPT ![a].pc = "lifetime"]
  /\ UNCHANGED <<clock, hist_lock, tally, nonRaceVars>>

\* metrics.py:36-41: the lifetime moves on, zero buckets fill the skipped
\* intervals, and the lock is released.
IncLifetime(a) ==
  LET skipped == adder[a].age \div Dt
      gap == adder[a].age > Dt
  IN
  /\ adder[a].pc = "lifetime"
  /\ histogram' = [histogram EXCEPT
       !.bucket_lifetime = IF gap THEN @ + Dt + skipped * Dt ELSE @ + Dt,
       !.bucket_list = IF gap THEN ExtendZeros(@, Zeros(skipped)) ELSE @]
  /\ tally' = [tally EXCEPT !.dropped =
       IF gap THEN @ + Dropped(histogram.bucket_list, Zeros(skipped)) ELSE @]
  /\ hist_lock' = NoThread
  /\ adder' = [adder EXCEPT ![a] = AdderIdle]
  /\ UNCHANGED <<clock, nonRaceVars>>

RaceNext ==
  \/ Tick
  \/ \E a \in Adders, value \in 1..MaxValue : CallIncrement(a, value)
  \/ \E a \in Adders :
       \/ IncTest(a) \/ IncLoad(a) \/ IncStore(a)
       \/ IncLock(a) \/ IncAppend(a) \/ IncValue(a) \/ IncLifetime(a)

\* Several threads call increment() on one histogram while time passes.
RaceSpec == Init /\ [][RaceNext]_vars

\* ------------------------------------------------------ events.EventManager

\* A counter that hands the same id out again.
getidStuck(n) == [id |-> n, next |-> n]

\* events.py:37: itertools.count().__next__ on a counter that stands at n
\* returns n and leaves the counter at n + 1.
getid(n) == [id |-> n, next |-> n + 1]

\* The events that have entered emit().
Emitted == next_id + Cardinality({e \in Emitters : emitter[e].pc = "stamp"})

\* events.py:61-63: a thread calls emit(); the event gets its time stamp
\* and its name.
CallEmit(e) ==
  /\ emitter[e].pc = "idle"
  /\ Emitted < MaxEvents
  /\ emitter' = [emitter EXCEPT ![e].pc = "stamp"]
  /\ UNCHANGED <<next_id, bus_queue, stamped, busVars, nonEventVars>>

\* events.py:64-65: under the bus lock the event gets its _id.
EmitStamp(e) ==
  /\ emitter[e].pc = "stamp"
  /\ emitter' = [emitter EXCEPT ![e].pc = "put", ![e].event = getid(next_id).id]
  /\ next_id' = getid(next_id).next
  /\ stamped' = Append(stamped, getid(next_id).id)
  /\ UNCHANGED <<bus_queue, busVars, nonEventVars>>

\* events.py:66: the event goes on the bus queue.
EmitPut(e) ==
  /\ emitter[e].pc = "put"
  /\ bus_queue' = Append(bus_queue, emitter[e].event)
  /\ emitter' = [emitter EXCEPT ![e].pc = "idle", ![e].event = None]
  /\ UNCHANGED <<next_id, stamped, busVars, nonEventVars>>

EventNext ==
  \E e \in Emitters : CallEmit(e) \/ EmitStamp(e) \/ EmitPut(e)

\* Several threads emit on one bus.
EventSpec == Init /\ [][EventNext]_vars

\* events.py:14-16, 22-24: where a sink keeps consume.
SinkKind(s) == IF s = "m1" THEN "method" ELSE "func"

\* events.py:53, 77: s.consume, read when the callback list is built.
Callback(s) == <<"consume", s>>

\* events.py:53, 77: [s.consume for s in self.sinks]
Callbacks(l) == [i \in 1..Len(l) |-> Callback(l[i])]

\* events.py:75: sink.consume is consume_callback.  A FuncSink holds its
\* function in an instance attribute, so reading sink.consume gives the
\* object the callback list holds.  A class derived from BaseSink defines
\* consume as a method: every read of sink.consume makes a new bound-method
\* object, which is never the object the callback list holds.
ConsumeIs(s, cb) == SinkKind(s) = "func" /\ cb = Callback(s)

\* events.py:49-54: add_sink under the bus lock.  The application
\* registers each sink once.
AddSink(s) ==
  /\ s \notin bus_hist.added
  /\ bus_hist' = [bus_hist EXCEPT !.added = @ \cup {s}]
  /\ IF \E i \in 1..Len(sinks) : sinks[i] = s
       THEN UNCHANGED <<sinks, sink_callbacks>>
       ELSE /\ sinks' = Append(sinks, s)
            /\ sink_callbacks' = Callbacks(sinks')
  /\ UNCHANGED <<sink_thread, eventVars, nonEventVars>>

\* events.py:87: the for statement goes to the next callback of the list
\* object it started on, or ends, and the loop is back at queue.get().
Advance(th) ==
  IF th.idx < Len(th.iter)
    THEN [th EXCEPT !.pc = "consume", !.idx = @ + 1, !.failed = None,
                    !.named = None, !.made = None]
    ELSE SinkIdle

\* events.py:84-87: the consumer takes the next event off the queue and
\* starts to walk the callback list of that moment.
SinkGet ==
  /\ sink_thread.pc = "get"
  /\ bus_queue # <<>>
  /\ bus_queue' = Tail(bus_queue)
  /\ sink_thread' =
       IF sink_callbacks = <<>> THEN SinkIdle
       ELSE [SinkIdle EXCEPT !.pc = "consume", !.event = Head(bus_queue),
                             !.iter = sink_callbacks, !.idx = 1]
  /\ UNCHANGED <<next_id, emitter, stamped, sinks, sink_callbacks, bus_hist,
                 nonEventVars>>

\* events.py:88-91: the callback is called with the event and returns or
\* raises.
SinkConsume ==
  LET cb == sink_thread.iter[sink_thread.idx]
      s == cb[2]
      called == [bus_hist EXCEPT !.delivered[s] = Append(@, sink_thread.event)]
  IN
  /\ sink_thread.pc = "consume"
  /\ \/ /\ sink_thread' = Advance(sink_thread)
        /\ bus_hist' = called
     \/ /\ sink_thread' = [sink_thread EXCEPT !.pc = "remove", !.failed = cb]
        /\ bus_hist' =
             IF bus_hist.failed_on[s] = {}
               THEN [called EXCEPT !.failed_on[s] = {sink_thread.event}]
               ELSE called
  /\ UNCHANGED <<eventVars, sinks, sink_callbacks, nonEventVars>>

\* The first position of list l that holds a sink whose consume is cb, or 0.
FirstMatch(l, cb) ==
  IF \E i \in 1..Len(l) : ConsumeIs(l[i], cb)
    THEN CHOOSE i \in 1..Len(l) :
           /\ ConsumeIs(l[i], cb)
           /\ \A j \in 1..(i - 1) : ~ConsumeIs(l[j], cb)
    ELSE 0

\* list.remove at position i.
RemoveAt(l, i) == SubSeq(l, 1, i - 1) \o SubSeq(l, i + 1, Len(l))

\* events.py:72-79, the locked block of _remove_sink_after_error: the
\* first sink whose consume is the callback is removed and the callback
\* list is built anew.  The loop variable sink is left at the sink found,
\* or, when the loop ran to its end without a match, at the last sink of
\* the list; it is None only when the list was empty.
SinkRemove ==
  LET i == FirstMatch(sinks, sink_thread.failed)
      sink == IF sinks = <<>> THEN None
              ELSE IF i > 0 THEN sinks[i]
              ELSE sinks[Len(sinks)]
  IN
  /\ sink_thread.pc = "remove"
  /\ IF i > 0
       THEN /\ sinks' = RemoveAt(sinks, i)
            /\ sink_callbacks' = Callbacks(sinks')
       ELSE UNCHANGED <<sinks, sink_callbacks>>
  /\ IF sink = None
       THEN /\ sink_thread' = Advance(sink_thread)
            /\ bus_hist' = [bus_hist EXCEPT !.handled = @ \cup {sink_thread.failed[2]}]
       ELSE /\ sink_thread' = [sink_thread EXCEPT !.pc = "stamp", !.named = sink]
            /\ UNCHANGED bus_hist
  /\ UNCHANGED <<eventVars, nonEventVars>>

\* events.py:80 and 61-65: the consumer thread itself emits
\* pool.sinkfailed; the event gets its _id under the bus lock.
SinkStamp ==
  /\ sink_thread.pc = "stamp"
  /\ Emitted < MaxEvents
  /\ sink_thread' = [sink_thread EXCEPT !.pc = "put", !.made = getid(next_id).id]
  /\ next_id' = getid(next_id).next
  /\ stamped' = Append(stamped, getid(next_id).id)
  /\ bus_hist' = [bus_hist EXCEPT
       !.payload = @ \cup {<<getid(next_id).id, sink_thread.named>>}]
  /\ UNCHANGED <<bus_queue, emitter, sinks, sink_callbacks, nonEventVars>>

\* events.py:66: the failure event goes on the bus queue, and the for
\* statement of _sink_loop goes on.
SinkPut ==
  /\ sink_thread.pc = "put"
  /\ bus_queue' = Append(bus_queue, sink_thread.made)
  /\ sink_thread' = Advance(sink_thread)
  /\ bus_hist' = [bus_hist EXCEPT !.handled = @ \cup {sink_thread.failed[2]}]
  /\ UNCHANGED <<next_id, emitter, stamped, sinks, sink_callbacks, nonEventVars>>

BusNext ==
  \/ EventNext
  \/ \E s \in Sinks : AddSink(s)
  \/ SinkGet \/ SinkConsume \/ SinkRemove \/ SinkStamp \/ SinkPut

\* Several threads emit on a bus whose consumer thread feeds the sinks.
BusSpec == Init /\ [][BusNext]_vars

\* ------------------------------------------------------ command.CommandGroup

\* A uniqueness test that lets every name pass.
NameTakenNever(cmds, n) == FALSE

\* command.py:71: name in self.commands
NameTaken(cmds, n) == cmds[n] # None

\* command.py:65-76: _register on group g of class d under name n raises
\* when the name is taken, else enters the class in the group's map.
register(all, g, n, d) ==
  IF NameTaken(all[g], n)
    THEN [commands |-> all, raised |-> CommandNameError]
    ELSE [commands |-> [all EXCEPT ![g][n] = d], raised |-> None]

\* command.py:113-122: the class statement of command class d, declaring
\* group g and name n (the class name, when it declares none), registers
\* the class with its group; when _register raises, so does the class
\* statement.
DefineCommand(d, g, n) ==
  LET r == register(commands, g, n, d) IN
  /\ definition[d].outcome = "undefined"
  /\ commands' = r.commands
  /\ definition' = [definition EXCEPT ![d] =
       [group |-> g, name |-> n, bound |-> r.raised = None,
        outcome |-> IF r.raised = None THEN "registered" ELSE r.raised]]
  /\ UNCHANGED <<commandVars, metricsVars, eventVars, busVars, locker, raceVars>>

\* command.py:100-101: clear() empties the command map of a group.
GroupClear(g) ==
  /\ commands' = [commands EXCEPT ![g] = NoCommands]
  /\ UNCHANGED <<definition, commandVars, metricsVars, eventVars, busVars,
                 locker, raceVars>>

GroupNext ==
  \/ \E d \in Definitions, g \in Groups, n \in Names : DefineCommand(d, g, n)
  \/ \E g \in Groups : GroupClear(g)

\* An application defines its command classes.
GroupSpec == Init /\ [][GroupNext]_vars

\* ------------------------------------------------- the locks, step by step

\* Every with statement on a task's state lock (command.py) and on the
\* pool's queue lock (pool.py) is followed as an acquire step and a release
\* step.  What a locked block does to the data is left out: where the code
\* branches on data, the thread takes either branch.

\* Everything but the two locks and the threads that take them.
nonLockVars ==
  <<state, canceled, result, exception, fallback_state, fallback_result,
    fallback_exception, completed, pool, queue, running, threads,
    shutdown_flag, client, worker, hist, metricsVars, eventVars, busVars,
    groupVars, raceVars>>

\* Thread x, at position from, takes the state lock of its task and goes on
\* at one of the positions of to.
AcquireState(x, from, to) ==
  /\ locker[x].pc = from
  /\ statelock[locker[x].task] = NoThread
  /\ statelock' = [statelock EXCEPT ![locker[x].task] = x]
  /\ \E p \in to : locker' = [locker EXCEPT ![x].pc = p]
  /\ UNCHANGED <<qlock, nonLockVars>>

ReleaseState(x, from, to) ==
  /\ locker[x].pc = from
  /\ statelock' = [statelock EXCEPT ![locker[x].task] = NoThread]
  /\ \E p \in to : locker' = [locker EXCEPT ![x].pc = p]
  /\ UNCHANGED <<qlock, nonLockVars>>

AcquireQueue(x, from, to) ==
  /\ locker[x].pc = from
  /\ qlock = NoThread
  /\ qlock' = x
  /\ \E p \in to : locker' = [locker EXCEPT ![x].pc = p]
  /\ UNCHANGED <<statelock, nonLockVars>>

ReleaseQueue(x, from, to) ==
  /\ locker[x].pc = from
  /\ qlock' = NoThread
  /\ \E p \in to : locker' = [locker EXCEPT ![x].pc = p]
  /\ UNCHANGED <<statelock, nonLockVars>>

\* A client thread calls submit, cancel or __try_fallback on a task (what
\* result() does is these three, one after the other) or Pool.shutdown.
LockCall(c, op, t) ==
  /\ locker[c].pc = "idle"
  /\ locker' = [locker EXCEPT ![c] = [pc |-> op, task |-> t]]
  /\ UNCHANGED <<statelock, qlock, nonLockVars>>

\* command.py:174-175: submit takes the state lock; a NEW task goes on to
\* Pool.enqueue, any other to the end of the block.
LockSubmit(c) ==
  /\ c \in Clients
  /\ AcquireState(c, "submit", {"enqueue", "submit_end"})
\* pool.py:48: enqueue takes the queue lock, inside submit's locked block.
LockEnqueue(c) ==
  /\ c \in Clients
  /\ AcquireQueue(c, "enqueue", {"enqueue_end"})
\* pool.py:49-59: enqueue raises or returns, and its block ends.
LockEnqueueEnd(c) ==
  /\ c \in Clients
  /\ ReleaseQueue(c, "enqueue_end", {"submit_end"})
\* command.py:178: the locked block of submit ends.
LockSubmitEnd(c) ==
  /\ c \in Clients
  /\ ReleaseState(c, "submit_end", {"idle"})

\* command.py:195-201: cancel takes the state lock; for a task bound to a
\* pool the return statement calls Pool.dequeue inside the locked block.
LockCancel(c) ==
  /\ c \in Clients
  /\ AcquireState(c, "cancel", {"dequeue", "cancel_end"})
\* pool.py:43
LockDequeue(c) ==
  /\ c \in Clients
  /\ AcquireQueue(c, "dequeue", {"dequeue_end"})
\* pool.py:44-45
LockDequeueEnd(c) ==
  /\ c \in Clients
  /\ ReleaseQueue(c, "dequeue_end", {"cancel_end"})
\* command.py:201
LockCancelEnd(c) ==
  /\ c \in Clients
  /\ ReleaseState(c, "cancel_end", {"idle"})

\* command.py:278-291
LockFallback(c) ==
  /\ c \in Clients
  /\ AcquireState(c, "try_fallback", {"try_fallback_end"})
LockFallbackEnd(c) ==
  /\ c \in Clients
  /\ ReleaseState(c, "try_fallback_end", {"idle"})

\* pool.py:82-84
LockShutdown(c) ==
  /\ c \in Clients
  /\ AcquireQueue(c, "shutdown", {"shutdown_end"})
LockShutdownEnd(c) ==
  /\ c \in Clients
  /\ ReleaseQueue(c, "shutdown_end", {"idle"})

\* pool.py:58: a worker thread is started.
LockStart(w) ==
  /\ locker[w].pc = "idle"
  /\ locker' = [locker EXCEPT ![w].pc = "loop"]
  /\ UNCHANGED <<statelock, qlock, nonLockVars>>

\* pool.py:65: the worker takes the queue lock at the top of its loop.
LockLoop(w) ==
  /\ w \in PoolWorkers
  /\ AcquireQueue(w, "loop", {"loop_locked"})

\* pool.py:69: Condition.wait gives the queue lock up ...
LockWait(w) ==
  /\ w \in PoolWorkers
  /\ ReleaseQueue(w, "loop_locked", {"wait"})
\* ... and takes it again when the worker is notified or the wait times
\* out.
LockWake(w) ==
  /\ w \in PoolWorkers
  /\ AcquireQueue(w, "wait", {"loop_locked"})

\* A worker that calls _run on the popped task inside the locked block of
\* its loop.
LockLoopEndKeeps(w) ==
  /\ locker[w].pc = "loop_locked"
  /\ \E t \in Tasks : locker' = [locker EXCEPT ![w] = [pc |-> "run", task |-> t]]
  /\ UNCHANGED <<statelock, qlock, nonLockVars>>

\* pool.py:66-73: the locked block of the loop ends, with a task popped or
\* with a break that ends the thread (pool.py:79).
LockLoopEnd(w) ==
  /\ locker[w].pc = "loop_locked"
  /\ qlock' = NoThread
  /\ \/ \E t \in Tasks : locker' = [locker EXCEPT ![w] = [pc |-> "run", task |-> t]]
     \/ locker' = [locker EXCEPT ![w].pc = "idle"]
  /\ UNCHANGED <<statelock, nonLockVars>>

\* command.py:295-297: the first locked block of _run; a task that is not
\* PENDING is not run.
LockRunBegin(w) ==
  /\ w \in PoolWorkers
  /\ AcquireState(w, "run", {"run_begin_end"})
LockRunBeginEnd(w) ==
  /\ w \in PoolWorkers
  /\ ReleaseState(w, "run_begin_end", {"run_finish", "loop"})
\* command.py:307-317: the second locked block of _run; then cleanup and
\* back to the loop.
LockRunFinish(w) ==
  /\ w \in PoolWorkers
  /\ AcquireState(w, "run_finish", {"run_finish_end"})
LockRunFinishEnd(w) ==
  /\ w \in PoolWorkers
  /\ ReleaseState(w, "run_finish_end", {"loop"})

LockClient(c) ==
  \/ \E op \in {"submit", "cancel", "try_fallback", "shutdown"}, t \in Tasks :
       LockCall(c, op, t)
  \/ LockSubmit(c) \/ LockEnqueue(c) \/ LockEnqueueEnd(c) \/ LockSubmitEnd(c)
  \/ LockCancel(c) \/ LockDequeue(c) \/ LockDequeueEnd(c) \/ LockCancelEnd(c)
  \/ LockFallback(c) \/ LockFallbackEnd(c)
  \/ LockShutdown(c) \/ LockShutdownEnd(c)

LockWorker(w) ==
  \/ LockStart(w) \/ LockLoop(w) \/ LockWait(w) \/ LockWake(w) \/ LockLoopEnd(w)
  \/ LockRunBegin(w) \/ LockRunBeginEnd(w)
  \/ LockRunFinish(w) \/ LockRunFinishEnd(w)

LockNext ==
  \/ \E c \in Clients : LockClient(c)
  \/ \E w \in PoolWorkers : LockWorker(w)

\* Client and worker threads going through the locked blocks.
LockSpec == Init /\ [][LockNext]_vars

\* ===================================================================== claims

Terminal(s) == s \in {SUCCEDED, FAILED}

\* The step is made by a client inside the locked block of submit().
BySubmit(t) ==
  \E c \in Clients : client[c].pc = "submit" /\ client[c].task = t
                      /\ client'[c].pc # "submit"
\* The step is made by a client inside the locked block of cancel().
ByCancel(t) ==
  \E c \in Clients : client[c].pc = "cancel_state" /\ client[c].task = t
                      /\ client'[c].pc = "cancel_signal"
\* The step is made by a worker that holds the task, at position p of _run.
ByWorker(t, p) ==
  \E w \in Workers : worker[w].pc = p /\ worker[w].command = t
                      /\ worker'[w].pc # p

\* C1: a task's state changes only NEW -> PENDING (submit), PENDING ->
\* RUNNING (worker pickup), RUNNING -> SUCCEDED or FAILED (run finished) or
\* NEW, PENDING or RUNNING -> FAILED (cancel); nothing goes backward and
\* nothing skips from NEW to RUNNING.
C1_StepAllowed(t) ==
  \/ state'[t] = state[t]
  \/ state[t] = NEW_STATE /\ state'[t] = PENDING /\ BySubmit(t)
  \/ state[t] = PENDING /\ state'[t] = RUNNING /\ ByWorker(t, "run")
  \/ state[t] = RUNNING /\ state'[t] \in {SUCCEDED, FAILED}
        /\ ByWorker(t, "run_finish")
  \/ state[t] \in {NEW_STATE, PENDING, RUNNING} /\ state'[t] = FAILED
        /\ ByCancel(t)

C1_StateMachine == [][\A t \in Tasks : C1_StepAllowed(t)]_vars

\* C1 witness: a task was picked up, canceled while running, and the worker
\* has finished with it.
C1_Witness ==
  /\ state["t1"] = FAILED /\ canceled["t1"]
  /\ hist["t1"].run_calls = 1 /\ hist["t1"].cleanup_calls = 1

\* C2: the completion signal is set exactly once, in the locked block that
\* makes the state terminal: never while the state is NEW, PENDING or
\* RUNNING, never a second time, and always once such a block has ended.
C2_SignalOnce ==
  \A t \in Tasks :
    /\ hist[t].completed_sets <= 1
    /\ completed[t] <=> hist[t].completed_sets = 1
    /\ completed[t] => Terminal(state[t])
    /\ (Terminal(state[t]) /\ statelock[t] = NoThread) => completed[t]

\* C2 witness: the signal was set by a cancel during the run, and the
\* worker came back from run() afterwards and is done.
C2_Witness ==
  /\ completed["t1"] /\ canceled["t1"]
  /\ hist["t1"].completed_sets = 1
  /\ hist["t1"].run_calls = 1 /\ hist["t1"].cleanup_calls = 1

\* Python truth values of what cancel() returns.
Truthy(v) == v = "True"
Falsy(v) == v \in {"False", None}

\* C3: cancel() returns True when it cancels a NEW or PENDING task (also a
\* PENDING task that is bound to a pool), and a false value when it cancels
\* a task whose run is executing.
C3_CancelReturn ==
  \A c \in Clients :
    (client[c].pc = "idle" /\ client[c].op = "cancel") =>
      /\ client[c].applied \in {NEW_STATE, PENDING} => Truthy(client[c].ret[2])
      /\ client[c].applied = RUNNING => Falsy(client[c].ret[2])

\* The client's call of method o on task t has returned or raised.
Returned(c, o, t) ==
  client[c].pc = "idle" /\ client[c].op = o /\ client[c].task = t

\* C4: when result() or exception() returns or raises for a task whose run
\* a worker executed to its end (not canceled, not timed out), cleanup has
\* been invoked exactly once.
C4_CleanupBeforeReturn ==
  \A c \in Clients, t \in Tasks :
    ( /\ Returned(c, "result", t) \/ Returned(c, "exception", t)
      /\ hist[t].run_calls = 1
      /\ completed[t] /\ ~canceled[t] )
    => hist[t].cleanup_calls = 1

\* The threads of a process keep running: a worker inside _run goes on (as
\* long as run() returns), and a client inside a locked block of submit or
\* cancel leaves it.
LiveSpec ==
  /\ Spec
  /\ \A w \in PoolWorkers :
       WF_vars(RunCall(w) \/ RunFinish(w) \/ RunRecord(w) \/ RunSignal(w)
               \/ RunCleanup(w))
  /\ \A c \in Clients :
       WF_vars(Enqueue(c) \/ CancelState(c) \/ CancelSignal(c) \/ Dequeue(c))

\* C5: cleanup is invoked at most once per task, never for a task that did
\* not enter RUNNING and never before run() has come back; and a task that
\* entered RUNNING gets its cleanup eventually, also when it was canceled
\* or timed out during the run.
C5_CleanupSafe ==
  \A t \in Tasks :
    /\ hist[t].cleanup_calls <= hist[t].run_calls
    /\ hist[t].run_calls <= 1
    /\ hist[t].cleanup_calls = 1 =>
         ~\E w \in Workers : worker[w].command = t

C5_CleanupOnce ==
  /\ []C5_CleanupSafe
  /\ \A t \in LifecycleTasks :
       (hist[t].run_calls = 1) ~> (hist[t].cleanup_calls = 1)

\* C5 witness: the task was canceled by a timed-out result() during its run
\* and has been cleaned up.
C5_Witness ==
  /\ hist["t1"].run_calls = 1 /\ hist["t1"].cleanup_calls = 1
  /\ exception["t1"] = CommandTimeoutError
  /\ \E c \in Clients : client[c].applied = RUNNING

\* What a caller gets from the fallback once it has been tried.
Cached(t) ==
  IF fallback_state[t] = SUCCEDED THEN <<"value", fallback_result[t]>>
  ELSE <<"raise", exception[t]>>
CachedFlag(t) ==
  <<"value", IF fallback_state[t] = SUCCEDED THEN "True" ELSE "False">>

\* A call that comes back after the fallback was tried gets the cached
\* outcome.
C6_Observes(c) ==
  LET t == client[c].task IN
  ( /\ client[c].pc # "idle" /\ client'[c].pc = "idle"
    /\ fallback_state[t] # NEW_STATE )
  => /\ client[c].op = "result" => client'[c].ret = Cached(t)
     /\ client[c].op \in {"is_fallback", "has_result"}
          => client'[c].ret = CachedFlag(t)

\* Once tried, the fallback's outcome and the task's exception stay.
C6_Stays(t) ==
  fallback_state[t] # NEW_STATE =>
    /\ fallback_state'[t] = fallback_state[t]
    /\ fallback_result'[t] = fallback_result[t]
    /\ fallback_exception'[t] = fallback_exception[t]
    /\ exception'[t] = exception[t]

\* C6: with any number of threads in result(), exception(), is_fallback()
\* or has_result(), fallback() is invoked at most once, only on a FAILED
\* task, and every caller after it observes the same cached outcome.
C6_FallbackOnce ==
  /\ [](\A t \in Tasks :
          /\ hist[t].fallback_calls <= 1
          /\ fallback_state[t] # NEW_STATE => state[t] = FAILED)
  /\ [][ /\ \A c \in Clients : C6_Observes(c)
         /\ \A t \in Tasks : C6_Stays(t) ]_vars

\* C6 witness: fallback() was invoked, and two threads have come back from
\* result() and is_fallback() with its value.
C6_Witness ==
  /\ hist["t1"].fallback_calls = 1
  /\ \E c, d \in Clients :
       /\ Returned(c, "result", "t1") /\ client[c].ret = <<"value", FallbackValue>>
       /\ Returned(d, "is_fallback", "t1") /\ client[d].ret = <<"value", "True">>

\* A client leaves the locked block of submit() on a task that is not NEW.
C7_Noop(c) ==
  LET t == client[c].task IN
  ( /\ client[c].pc = "submit" /\ client'[c].pc # "submit"
    /\ state[t] # NEW_STATE )
  => /\ state' = state
     /\ queue' = queue
     /\ client[c].op = "submit" =>
          client'[c].pc = "idle" /\ client'[c].ret = <<"value", "self">>
     /\ client[c].op # "submit" => client'[c].pc = "result_check"

C8_Timeout ==
  \A c \in Clients :
    LET t == client[c].task IN
    ( /\ client[c].op = "result"
      /\ client[c].applied \in {PENDING, RUNNING}
      /\ client[c].pc \in {"result_state", "try_fallback", "result_fallback", "idle"} )
    => /\ state[t] = FAILED
       /\ exception[t] = CommandTimeoutError
       /\ is_canceled(t) /\ is_timeout(t)
       /\ client[c].pc = "idle" =>
            client[c].ret =
              IF fallback_state[t] = SUCCEDED
                THEN <<"value", FallbackValue>>
                ELSE <<"raise", CommandTimeoutError>>

\* C8 witness: a result() that timed out during the run came back with the
\* fallback's value.
C8_Witness ==
  \E c \in Clients :
    /\ Returned(c, "result", "t1") /\ client[c].applied = RUNNING
    /\ client[c].ret = <<"value", FallbackValue>>

\* C9: a result() that returns through the success branch returns the value
\* run() returned.
C9_ResultIsRunValue ==
  \A c \in Clients, t \in Tasks :
    ( /\ Returned(c, "result", t)
      /\ client[c].ret[1] = "value"
      /\ state[t] = SUCCEDED )
    => client[c].ret[2] = hist[t].run_returned

\* C10: when run() raised and the fallback raised too, the task's exception
\* is still the one run() raised, the fallback's is kept apart, and result()
\* raises the one of run().
C10_OriginalException ==
  \A t \in Tasks :
    (fallback_exception[t] # None /\ ~canceled[t]) =>
      /\ exception[t] = RunError
      /\ fallback_exception[t] = FallbackError
      /\ \A c \in Clients :
           Returned(c, "result", t) => client[c].ret = <<"raise", RunError>>

\* C10 witness: result() has raised after run() and the fallback both
\* raised.
C10_Witness ==
  \E c \in Clients :
    /\ Returned(c, "result", "t1") /\ client[c].ret[1] = "raise"
    /\ fallback_exception["t1"] = FallbackError /\ ~canceled["t1"]
    /\ hist["t1"].fallback_calls = 1

\* C11: exception() on a task that is FAILED when the call comes back
\* returns the task's recorded exception, whether the completion signal was
\* set at the call or exception() went through result(), and whether the
\* fallback is absent, fails or succeeds.
C11_ExceptionReturns ==
  [][\A c \in Clients :
       LET t == client[c].task IN
       ( /\ client[c].op = "exception"
         /\ client[c].pc # "idle" /\ client'[c].pc = "idle"
         /\ state[t] = FAILED )
       => /\ exception[t] # None
          /\ client'[c].ret = <<"value", exception[t]>>]_vars

\* C12: whatever moment an observer reads the fields at, without the state
\* lock: a task that is_success() has no exception, and a task that
\* is_failure() has one.
C12_ObserverConsistent ==
  \A t \in Tasks :
    /\ is_success(t) => exception[t] = None
    /\ is_failure(t) => exception[t] # None

\* The task has completed: its state is terminal and the locked block that
\* made it so has written its other fields and set the signal.
Completed(t) == Terminal(state[t]) /\ completed[t]

\* C13: terminal states are absorbing.  Once a task has completed, no step
\* of cancel, submit or a worker changes its state, result, exception or
\* canceled flag; a canceled task records no result and keeps the
\* exception cancel gave it, whatever run() returns or raises later; and a
\* task that succeeded is never flagged canceled.
C13_Kept(t) ==
  Completed(t) =>
    /\ state'[t] = state[t] /\ result'[t] = result[t]
    /\ exception'[t] = exception[t] /\ canceled'[t] = canceled[t]

C13_TerminalAbsorbing ==
  /\ [](\A t \in Tasks :
          /\ canceled[t] =>
                /\ state[t] = FAILED /\ result[t] = None
                /\ exception[t] \in {CommandCancelledError, CommandTimeoutError}
          /\ state[t] = SUCCEDED => ~canceled[t])
  /\ [][\A t \in Tasks : C13_Kept(t)]_vars

\* C13 witness: the task was canceled during its run, run() returned a
\* value afterwards, and the worker is done with the task.
C13_Witness ==
  /\ canceled["t1"] /\ exception["t1"] = CommandCancelledError
  /\ hist["t1"].run_returned = RunValue /\ hist["t1"].cleanup_calls = 1
  /\ result["t1"] = None

\* C14: when a cancel takes effect on a NEW or PENDING task, run() and
\* cleanup() are never invoked for the task, also when a worker has popped
\* it already; and once that cancel has returned, the task is not in the
\* queue.
C14_CancelBeforeRun ==
  \A c \in Clients :
    LET t == client[c].task IN
    client[c].applied \in {NEW_STATE, PENDING} =>
      /\ hist[t].run_calls = 0 /\ hist[t].cleanup_calls = 0
      /\ ~\E w \in Workers :
            worker[w].command = t /\ worker[w].pc \notin {"run", "loop"}
      /\ client[c].pc = "idle" => ~InQueue(t)

\* C14 witness: a worker popped the task, cancel took effect before the
\* worker got the state lock, and cancel has returned.
C14_Witness ==
  \E c \in Clients, w \in Workers :
    /\ Returned(c, "cancel", "t1") /\ client[c].applied = PENDING
    /\ worker[w].pc = "run" /\ worker[w].command = "t1"

\* C15: the queue never holds more than max_queue_size tasks and the
\* worker list never more than max_pool_size threads.
C15_PoolBounds ==
  /\ Len(queue) <= max_queue_size
  /\ Cardinality(threads) <= max_pool_size

\* C15 witness: the queue and the worker list are both at their limit.
C15_Witness ==
  /\ Len(queue) = max_queue_size
  /\ Cardinality(threads) = max_pool_size

\* A client leaves Pool.enqueue.
C16_Enqueues(c) == client[c].pc = "enqueue" /\ client'[c].pc # "enqueue"

\* C16: enqueue on a pool that is shut down fails with the closed error,
\* enqueue on a pool whose queue is at max_queue_size fails with the
\* queue-full error, and either leaves the queue and the worker list as
\* they were and starts no worker.
C16_EnqueueRefused ==
  [][\A c \in Clients :
       ( /\ C16_Enqueues(c)
         /\ shutdown_flag \/ Len(queue) >= max_queue_size )
       => /\ client'[c].ret =
               <<"raise", IF shutdown_flag THEN PoolClosedError
                                           ELSE QueueFullError>>
          /\ queue' = queue /\ threads' = threads /\ worker' = worker]_vars

\* C16 witness: a submit was refused by a full queue and the worker list
\* is what it was.
C16_Witness ==
  \E c \in Clients :
    /\ client[c].pc = "idle" /\ client[c].op = "submit"
    /\ client[c].ret = <<"raise", QueueFullError>>
    /\ Len(queue) = max_queue_size /\ threads # {}

\* A worker leaves the locked block of its loop with a task popped.
Pops(w) == worker[w].pc \in {"loop", "wake"} /\ worker'[w].pc = "run"

\* C17: workers pop the tasks in the order the queue took them in: of two
\* tasks that cancel did not remove, the one enqueued first is popped
\* first.  So every pop takes the task that went in first among those the
\* queue holds.
C17_Fifo ==
  [][\A w \in Workers :
       Pops(w) =>
         /\ InQueue(worker'[w].command)
         /\ \A u \in Tasks :
              InQueue(u) =>
                hist[worker'[w].command].enq_seq <= hist[u].enq_seq]_vars

\* C17 witness: two tasks went into the queue one after the other, and the
\* workers have popped and run both.
C17_Witness ==
  \E a, b \in Tasks :
    /\ hist[a].enq_seq = 1 /\ hist[b].enq_seq = 2
    /\ hist[a].run_calls = 1 /\ hist[b].run_calls = 1
    /\ hist[a].cleanup_calls = 1 /\ hist[b].cleanup_calls = 1

\* The client's call of shutdown(block=True) has returned.
ShutdownReturned(c) ==
  client[c].op = "shutdown" /\ client[c].pc = "idle" /\ client[c].timeout

\* From the moment the pool is shut down: no worker thread is started, no
\* worker pops a task, every enqueue fails with the closed error, and the
\* pool stays shut down.
C18_Closed ==
  shutdown_flag =>
    /\ shutdown_flag'
    /\ threads' \subseteq threads
    /\ \A w \in Workers : ~Pops(w)
    /\ \A c \in Clients :
         C16_Enqueues(c) =>
           /\ client'[c].ret = <<"raise", PoolClosedError>>
           /\ queue' = queue

\* C18: after shutdown(block=True) has returned the worker list is empty,
\* no worker is started any more and every later enqueue fails with the
\* closed error; a worker that sees the shutdown flag pops no further task.
C18_Shutdown ==
  /\ [](\A c \in Clients :
          ShutdownReturned(c) =>
            /\ shutdown_flag /\ threads = {}
            /\ \A w \in Workers : worker[w].pc = "none")
  /\ [][C18_Closed]_vars

\* C18 witness: a pool that had started a worker was shut down by a
\* blocking shutdown, which has returned, and a submit made by the other
\* client has failed with the closed error.
C18_Witness ==
  \E c, d \in Clients :
    /\ ShutdownReturned(c)
    /\ client[d].pc = "idle" /\ client[d].op = "submit"
    /\ client[d].ret = <<"raise", PoolClosedError>>
    /\ \E t \in Tasks : hist[t].enq_seq > 0

\* What went into the buckets of the window: the Buckets buckets before
\* the current one.
InWindow(h) ==
  LET ends == {h.bucket_lifetime - k * Dt : k \in 1..Buckets}
  IN FellTotal(ends \cap BucketEnds)

\* C19: after any sequence of increment and sync calls with any idle gaps
\* between them, sum() is the total of the amounts that went into the
\* buckets of the window; an amount whose bucket lies further back adds
\* nothing.
C19_SumIsWindow == sum(histogram) = InWindow(histogram)

\* C20: every event gets an _id that no other event has and that is greater
\* than every _id stamped before.
C20_IdsIncrease ==
  /\ \A i, j \in 1..Len(stamped) : i < j => stamped[i] < stamped[j]
  /\ \A i, j \in 1..Len(bus_queue) : i # j => bus_queue[i] # bus_queue[j]
  /\ \A e, f \in Emitters :
       (e # f /\ emitter[e].pc = "put" /\ emitter[f].pc = "put")
         => emitter[e].event # emitter[f].event

\* C20 witness: every emitting thread holds a stamped event at the same
\* time, and an event stamped before those is on the queue.
C20_Witness ==
  /\ \A e \in Emitters : emitter[e].pc = "put"
  /\ Len(stamped) = Cardinality(Emitters) + 1 /\ Len(bus_queue) = 1

Last(l) == l[Len(l)]

\* C21: once the failure of a sink has been dealt with, the sink is in
\* neither the sink list nor the callback list and the event it raised on
\* is the last it was called with, and one pool.sinkfailed event names it;
\* the sinks before the consumer's position in the callback list have all
\* been called with the event at hand, and a registered sink that never
\* raised stays registered.
C21_SinkEvicted ==
  /\ \A s \in bus_hist.handled :
       /\ ~\E i \in 1..Len(sinks) : sinks[i] = s
       /\ ~\E i \in 1..Len(sink_callbacks) : sink_callbacks[i] = Callback(s)
       /\ {Last(bus_hist.delivered[s])} = bus_hist.failed_on[s]
       /\ Cardinality({p \in bus_hist.payload : p[2] = s}) = 1
  /\ sink_thread.pc # "get" =>
       \A j \in 1..(sink_thread.idx - 1) :
         Last(bus_hist.delivered[sink_thread.iter[j][2]]) = sink_thread.event
  /\ \A s \in bus_hist.added :
       bus_hist.failed_on[s] = {} => \E i \in 1..Len(sinks) : sinks[i] = s

\* C28: every sink is called with the events in strictly increasing order
\* of their _id.
C28_DeliveryOrder ==
  \A s \in Sinks :
    \A i, j \in 1..Len(bus_hist.delivered[s]) :
      i < j => bus_hist.delivered[s][i] < bus_hist.delivered[s][j]

\* The class statement of d ends in this step.
Defines(d) ==
  definition[d].outcome = "undefined" /\ definition'[d].outcome # "undefined"

\* C22: a group's command map holds a class only under the name and in the
\* group the class is bound to, and no class twice; defining a class whose
\* name is taken in its group fails with CommandNameError and leaves every
\* command map as it was, and defining one whose name is free in its group
\* (taken in another or not) enters it under that name and changes nothing
\* else.
C22_Register ==
  \A d \in Definitions :
    Defines(d) =>
      LET g == definition'[d].group
          n == definition'[d].name
      IN IF commands[g][n] # None
           THEN /\ definition'[d].outcome = CommandNameError
                /\ ~definition'[d].bound
                /\ commands' = commands
           ELSE /\ definition'[d].outcome = "registered"
                /\ definition'[d].bound
                /\ commands' = [commands EXCEPT ![g][n] = d]

C22_UniqueNames ==
  /\ [](\A g \in Groups, n \in Names :
          commands[g][n] # None =>
            /\ definition[commands[g][n]].bound
            /\ definition[commands[g][n]].group = g
            /\ definition[commands[g][n]].name = n
            /\ \A h \in Groups, m \in Names :
                 commands[h][m] = commands[g][n] => h = g /\ m = n)
  /\ [][C22_Register]_vars

\* C22 witness: a class is registered in a group, a second class with the
\* same name was refused by that group, and a third class with the same
\* name is registered in the other group.
C22_Witness ==
  /\ commands["g1"]["A"] = "d1" /\ commands["g2"]["A"] = "d3"
  /\ definition["d2"] = [group |-> "g1", name |-> "A", bound |-> FALSE,
                         outcome |-> CommandNameError]
  /\ definition["d1"].bound /\ definition["d3"].bound

\* The positions at which a thread is about to take its task's state lock,
\* and those at which it is about to take the queue lock.
AtStateLock(x) ==
  locker[x].pc \in {"submit", "cancel", "try_fallback", "run", "run_finish"}
AtQueueLock(x) == locker[x].pc \in {"enqueue", "dequeue", "shutdown", "loop", "wait"}

HoldsStateLock(x) == \E t \in Tasks : statelock[t] = x

\* C23: a thread that is about to take the queue lock holds no task's
\* state lock, and a thread that is about to take a state lock does not
\* hold the queue lock; no thread ever holds both.
C23_LeafLocks ==
  \A x \in Lockers :
    /\ AtQueueLock(x) => ~HoldsStateLock(x)
    /\ AtStateLock(x) => qlock # x
    /\ ~(HoldsStateLock(x) /\ qlock = x)

\* The thread that holds the lock x is blocked on, or NoThread when x is
\* not blocked.
BlockedOn(x) ==
  IF AtStateLock(x) THEN statelock[locker[x].task]
  ELSE IF AtQueueLock(x) THEN qlock
  ELSE NoThread

\* The thread at the end of the chain of n waits that starts at x.
RECURSIVE WaitChain(_, _)
WaitChain(x, n) ==
  IF n = 0 \/ x = NoThread THEN x ELSE WaitChain(BlockedOn(x), n - 1)

\* C26: no set of threads waits on each other in a cycle over state locks
\* and the queue lock: from every thread, the chain of "is blocked on a
\* lock held by" ends at a thread that is not blocked.  And the locks are
\* taken in one order: a thread that holds the queue lock never goes for
\* a state lock.
C26_NoLockCycle ==
  \A x \in Lockers :
    /\ WaitChain(x, Cardinality(Lockers) + 1) = NoThread
    /\ qlock = x => ~AtStateLock(x)

\* C26 witness: a client inside submit or cancel holds a task's state lock
\* and is blocked on the queue lock, which a worker holds, while another
\* client is blocked on that state lock.
C26_Witness ==
  \E c, d \in Clients, w \in PoolWorkers :
    /\ locker[c].pc \in {"enqueue", "dequeue"}
    /\ statelock[locker[c].task] = c /\ qlock = w
    /\ AtStateLock(d) /\ locker[d].task = locker[c].task

\* A submit call is in progress on the task.
SubmitInProgress(t) ==
  \E c \in Clients : client[c].task = t /\ client[c].pc \in {"submit", "enqueue"}

\* C25: while no submit is in progress on it, a PENDING task is in the
\* queue or has been popped by a worker that is about to call _run on it.
C25_NoOrphan ==
  \A t \in Tasks :
    (state[t] = PENDING /\ ~SubmitInProgress(t)) =>
      \/ InQueue(t)
      \/ \E w \in Workers : worker[w].command = t /\ worker[w].pc = "run"

\* The cancel that failed the task has not returned yet: it is between
\* writing the state and the end of Pool.dequeue.
CancelUnderWay(t) ==
  \E c \in Clients :
    /\ client[c].task = t /\ client[c].applied # None
    /\ client[c].pc \in {"cancel_signal", "dequeue"}

\* C27: the queue holds each task at most once, only PENDING tasks and
\* FAILED tasks whose cancel is still under way, and no task that a
\* worker has popped.
C27_QueueSound ==
  \A t \in Tasks :
    /\ Cardinality({i \in 1..Len(queue) : queue[i] = t}) <= 1
    /\ InQueue(t) =>
         /\ state[t] \in {PENDING, FAILED}
         /\ state[t] = FAILED => CancelUnderWay(t)
         /\ ~\E w \in Workers : worker[w].command = t

\* C27 witness: a canceled task is still in the queue, its cancel on the
\* way to Pool.dequeue, while a worker runs another task.
C27_Witness ==
  \E t, u \in Tasks :
    /\ InQueue(t) /\ state[t] = FAILED /\ CancelUnderWay(t)
    /\ state[u] = RUNNING /\ \E w \in Workers : worker[w].command = u

\* The threads of the pool under load keep running: a worker takes its
\* next step (a wait on the empty queue ends after max_worker_idle
\* seconds at the latest, and every run() returns), and a client inside
\* submit, cancel or shutdown goes on.
LivePoolSpec ==
  /\ PoolSpec
  /\ \A w \in PoolWorkers : WF_vars(WorkerStep(w))
  /\ \A c \in Clients : WF_vars(PoolStep(c))

\* C24: every task the queue took in reaches SUCCEDED or FAILED, unless
\* the pool is shut down.
C24_EventuallyRun ==
  \A t \in Tasks :
    (hist[t].enq_seq > 0) ~> (Terminal(state[t]) \/ shutdown_flag)

\* C29: when no thread is inside increment(), the current bucket and the
\* buckets of the list hold every amount passed to increment() that has
\* not dropped off the list.
C29_NoLostIncrement ==
  (\A a \in Adders : adder[a].pc = "idle") =>
    histogram.bucket_value + sum(histogram) + tally.dropped = tally.passed

====
